---- MODULE Spec2Model ----
(***************************************************************************)
(* State-machine model of the SysClk LWLA driver front end                 *)
(* (src/hardware/sysclk-lwla/api.c): device discovery, open/close,         *)
(* configuration, and the start/stop protocol of an acquisition.           *)
(*                                                                         *)
(* A handler that calls into the protocol engine is split at those calls:  *)
(* pc names the call the running handler is about to make, and no other    *)
(* operation is enabled until the handler has returned (pc = "idle").      *)
(***************************************************************************)
EXTENDS Integers, Sequences, FiniteSets, TLC

(* ------------------------------ bounds -------------------------------- *)

\* Device records (sr_dev_inst + dev_context) the heap can hold at once.
MaxRecs == 2
\* Acquisition states the heap can hold at once.
MaxSessions == 2
\* USB devices one sr_usb_find() can report.
MaxFound == 2
\* Channel count of the modelled device (34 on the real hardware).
NUM_PROBES == 3

RecIds == 1..MaxRecs
SessionIds == 1..MaxSessions
NULL == 0

(* ----------------------------- constants ------------------------------ *)

SR_OK == "SR_OK"
SR_ERR == "SR_ERR"
SR_ERR_MALLOC == "SR_ERR_MALLOC"
SR_ERR_NA == "SR_ERR_NA"
SR_ERR_DEV_CLOSED == "SR_ERR_DEV_CLOSED"
SR_ERR_SAMPLERATE == "SR_ERR_SAMPLERATE"

SR_ST_INACTIVE == "SR_ST_INACTIVE"
SR_ST_INITIALIZING == "SR_ST_INITIALIZING"
SR_ST_ACTIVE == "SR_ST_ACTIVE"
SR_ST_STOPPING == "SR_ST_STOPPING"
Statuses == {SR_ST_INACTIVE, SR_ST_INITIALIZING, SR_ST_ACTIVE, SR_ST_STOPPING}

CLOCK_SOURCE_NONE == "CLOCK_SOURCE_NONE"
CLOCK_SOURCE_INT == "CLOCK_SOURCE_INT"
CLOCK_SOURCE_EXT_RISE == "CLOCK_SOURCE_EXT_RISE"

SR_CONF_SAMPLERATE == "SR_CONF_SAMPLERATE"
SR_CONF_LIMIT_SAMPLES == "SR_CONF_LIMIT_SAMPLES"
SR_CONF_EXTERNAL_CLOCK == "SR_CONF_EXTERNAL_CLOCK"
SR_CONF_OTHER == "SR_CONF_OTHER"

\* The advertised sample rates in Hz, in the order of the table.
samplerates ==
    << 125000000, 100000000,
       50000000, 20000000, 10000000,
       5000000, 2000000, 1000000,
       500000, 200000, 100000,
       50000, 20000, 10000,
       5000, 2000, 1000,
       500, 200, 100 >>

DEFAULT_SAMPLERATE == 125000000

(* ------------------------------ bit masks ----------------------------- *)

RECURSIVE BitOr(_, _)
BitOr(a, b) ==
    IF a = 0 THEN b
    ELSE IF b = 0 THEN a
    ELSE (IF a % 2 = 1 \/ b % 2 = 1 THEN 1 ELSE 0) + 2 * BitOr(a \div 2, b \div 2)

RECURSIVE BitAnd(_, _)
BitAnd(a, b) ==
    IF a = 0 \/ b = 0 THEN 0
    ELSE (IF a % 2 = 1 /\ b % 2 = 1 THEN 1 ELSE 0) + 2 * BitAnd(a \div 2, b \div 2)

\* a has no bit set that b lacks.
BitSubset(a, b) == BitAnd(a, b) = a

\* Bit i (0-based) of m.
Bit(m, i) == (m \div (2 ^ i)) % 2 = 1

(* --------------------------- channel lists ---------------------------- *)

\* A trigger string is a sequence of characters; <<>> stands for both a
\* NULL pointer and the empty string, which the code treats alike.
TriggerStrings ==
    { <<>>, <<"0">>, <<"1">>, <<"r">>, <<"f">>, <<"x">>, <<"0", "r">> }

ProbeSpecs ==
    { [enabled |-> TRUE, trigger |-> t] : t \in TriggerStrings }
        \cup { [enabled |-> FALSE, trigger |-> t] : t \in { <<>>, <<"r">> } }

\* Every channel list of length n.
ProbeListsOfLen(n) == [1..n -> ProbeSpecs]

\* Every channel list of up to one entry more than the device has channels.
AllProbeLists == UNION { ProbeListsOfLen(n) : n \in 0..(NUM_PROBES + 1) }

\* The list scan() attaches to a new device: NUM_PROBES channels, CH1..CHn,
\* all enabled, no trigger.
gen_probe_list(num_probes) ==
    [i \in 1..num_probes |-> [enabled |-> TRUE, trigger |-> <<>>]]

(* ------------------------ configure_probes() -------------------------- *)

\* Variant: the check lets one channel too many through.
over_limit_late(probe_bit) == probe_bit > 2 ^ NUM_PROBES

\* The channel-count check at the head of each iteration.
over_limit(probe_bit) == probe_bit >= 2 ^ NUM_PROBES

\* Variant: 'r' does not fall through to 'f'.
trigger_switch_r_breaks(dc, sym, probe_bit) ==
    CASE sym = "1" ->
           [ret |-> SR_OK,
            devc |-> [dc EXCEPT !.trigger_values = BitOr(@, probe_bit)]]
      [] sym = "0" ->
           [ret |-> SR_OK, devc |-> dc]
      [] sym = "r" ->
           [ret |-> SR_OK,
            devc |-> [dc EXCEPT !.trigger_values = BitOr(@, probe_bit)]]
      [] sym = "f" ->
           [ret |-> SR_OK,
            devc |-> [dc EXCEPT !.trigger_edge_mask = BitOr(@, probe_bit)]]
      [] OTHER ->
           [ret |-> SR_ERR, devc |-> dc]

\* The switch on the trigger symbol: '1' falls through to '0', 'r' falls
\* through to 'f', anything else is rejected.
trigger_switch(dc, sym, probe_bit) ==
    CASE sym = "1" ->
           [ret |-> SR_OK,
            devc |-> [dc EXCEPT !.trigger_values = BitOr(@, probe_bit)]]
      [] sym = "0" ->
           [ret |-> SR_OK, devc |-> dc]
      [] sym = "r" ->
           [ret |-> SR_OK,
            devc |-> [dc EXCEPT !.trigger_values = BitOr(@, probe_bit),
                                !.trigger_edge_mask = BitOr(@, probe_bit)]]
      [] sym = "f" ->
           [ret |-> SR_OK,
            devc |-> [dc EXCEPT !.trigger_edge_mask = BitOr(@, probe_bit)]]
      [] OTHER ->
           [ret |-> SR_ERR, devc |-> dc]

\* The loop of configure_probes(), from list position i with probe_bit.
\* probe_bit never passes 2^NUM_PROBES: the loop returns at the first
\* iteration that sees it there, so the 64-bit shift cannot wrap.
RECURSIVE probe_loop(_, _, _, _)
probe_loop(dc, probes, i, probe_bit) ==
    IF i > Len(probes) THEN [ret |-> SR_OK, devc |-> dc]
    ELSE IF over_limit(probe_bit) THEN [ret |-> SR_ERR, devc |-> dc]
    ELSE
        LET probe == probes[i]
            trg == probe.trigger
        IN  IF ~probe.enabled
            THEN probe_loop(dc, probes, i + 1, probe_bit * 2)
            ELSE
                LET dc1 == [dc EXCEPT !.channel_mask = BitOr(@, probe_bit)]
                IN  IF Len(trg) = 0
                    THEN probe_loop(dc1, probes, i + 1, probe_bit * 2)
                    ELSE IF Len(trg) > 1
                    THEN [ret |-> SR_ERR, devc |-> dc1]
                    ELSE
                        LET dc2 == [dc1 EXCEPT !.trigger_mask = BitOr(@, probe_bit)]
                            sw == trigger_switch(dc2, trg[1], probe_bit)
                        IN  IF sw.ret # SR_OK
                            THEN sw
                            ELSE probe_loop(sw.devc, probes, i + 1, probe_bit * 2)

\* configure_probes(sdi): the masks are cleared in the context, then built
\* in place; the result is the return code and the context as left behind.
configure_probes(dc, probes) ==
    probe_loop([dc EXCEPT !.channel_mask = 0,
                          !.trigger_mask = 0,
                          !.trigger_edge_mask = 0,
                          !.trigger_values = 0],
               probes, 1, 1)

(* ------------------------------- state -------------------------------- *)

VARIABLES
    instances,  \* drvc->instances: the registry, a list of device records
    recs,       \* device records allocated and not freed
    sdi,        \* per record: status, devhdl (connection present), probes
    devc,       \* per record: the dev_context
    acqs,       \* acquisition states allocated and not freed
    sources,    \* records registered with the I/O watcher (usb_source_add)
    pc,         \* position of the running handler, "idle" between operations
    last        \* the running or last operation: name, device, arguments,
                \* external calls made so far in order, and return value

vars == <<instances, recs, sdi, devc, acqs, sources, pc, last>>

\* g_try_new0(struct dev_context, 1): every field zero.
ZeroDevc ==
    [ samplerate            |-> 0,
      limit_samples         |-> 0,
      selected_clock_source |-> CLOCK_SOURCE_NONE,
      channel_mask          |-> 0,
      trigger_mask          |-> 0,
      trigger_edge_mask     |-> 0,
      trigger_values        |-> 0,
      acquisition           |-> NULL,
      stopping_in_progress  |-> FALSE,
      transfer_error        |-> FALSE ]

\* sr_dev_inst_new(index, SR_ST_INACTIVE, ...) with conn = usb (no handle
\* yet) and probes = gen_probe_list(NUM_PROBES).
NewSdi ==
    [ status |-> SR_ST_INACTIVE,
      devhdl |-> FALSE,
      probes |-> gen_probe_list(NUM_PROBES) ]

\* Content of a slot that holds no record.
NoSdi == [status |-> SR_ST_INACTIVE, devhdl |-> FALSE, probes |-> <<>>]

Call(op, d) == [op |-> op, dev |-> d, arg |-> <<>>, calls |-> <<>>, ret |-> "pending"]
CallWith(op, d, arg) == [Call(op, d) EXCEPT !.arg = arg]
Returned(l, r) == [l EXCEPT !.ret = r]
Called(l, cs) == [l EXCEPT !.calls = @ \o cs]

\* std_init(): the driver context exists and the registry is empty.  The
\* context is never taken away again, so the "driver was not initialized"
\* returns of dev_open() and dev_close() are not taken, and a live record
\* always has its dev_context, so config_set() never sees a NULL priv.
Init ==
    /\ instances = <<>>
    /\ recs = {}
    /\ sdi = [d \in RecIds |-> NoSdi]
    /\ devc = [d \in RecIds |-> ZeroDevc]
    /\ acqs = {}
    /\ sources = {}
    /\ pc = "idle"
    /\ last = Returned(Call("init", 0), SR_OK)

(* ----------------------------- allocation ----------------------------- *)

RECURSIVE SetToSeq(_)
SetToSeq(S) ==
    IF S = {} THEN <<>>
    ELSE LET m == CHOOSE x \in S : \A y \in S : x <= y
         IN  <<m>> \o SetToSeq(S \ {m})

\* The n lowest free record slots, in order.
FreshRecs(n) ==
    LET free == RecIds \ recs
        S == CHOOSE T \in SUBSET free :
                 /\ Cardinality(T) = n
                 /\ \A x \in T, y \in free \ T : x < y
    IN  SetToSeq(S)

\* lwla_alloc_acquisition_state(): a state not in use, or NULL.
FreshSession == CHOOSE a \in SessionIds \ acqs : \A b \in SessionIds \ acqs : a <= b

\* lwla_free_acquisition_state(acq); freeing NULL does nothing.
FreeSession(S, a) == S \ {a}

Range(f) == { f[i] : i \in DOMAIN f }

(* ------------------------------- scan --------------------------------- *)

\* scan(): the registry is reset to the empty list without touching the
\* records it held; then one record is made per USB device found, skipping
\* a device when either allocation fails.  made is the number of records
\* that could be allocated among the found devices.
scan(found, made) ==
    /\ pc = "idle"
    /\ made <= found
    /\ made <= Cardinality(RecIds \ recs)
    /\ LET new == FreshRecs(made)
       IN  /\ instances' = new
           /\ recs' = recs \cup Range(new)
           /\ sdi' = [d \in RecIds |-> IF d \in Range(new) THEN NewSdi ELSE sdi[d]]
           /\ devc' = [d \in RecIds |-> IF d \in Range(new) THEN ZeroDevc ELSE devc[d]]
    /\ last' = Returned(Called(Call("scan", 0), <<"sr_usb_find">>), SR_OK)
    /\ UNCHANGED <<acqs, sources, pc>>

(* ------------------------------ dev_clear ----------------------------- *)

\* Variant: the context is released without its acquisition state.
clear_dev_context_leak(S, dc) == S

\* clear_dev_context(priv): release the acquisition state, then the context.
clear_dev_context(S, dc) == FreeSession(S, dc.acquisition)

RECURSIVE clear_all(_, _)
clear_all(S, l) ==
    IF l = <<>> THEN S
    ELSE clear_all(clear_dev_context(S, devc[Head(l)]), Tail(l))

\* dev_clear() / cleanup(): std_dev_clear(di, &clear_dev_context) runs
\* clear_dev_context on every record of the registry, frees the records and
\* empties the registry.
dev_clear ==
    /\ pc = "idle"
    /\ acqs' = clear_all(acqs, instances)
    /\ recs' = recs \ Range(instances)
    /\ sdi' = [d \in RecIds |-> IF d \in Range(instances) THEN NoSdi ELSE sdi[d]]
    /\ devc' = [d \in RecIds |-> IF d \in Range(instances) THEN ZeroDevc ELSE devc[d]]
    /\ instances' = <<>>
    /\ last' = Returned(Call("dev_clear", 0), SR_OK)
    /\ UNCHANGED <<sources, pc>>

(* ------------------------------ dev_open ------------------------------ *)

\* Variant: the default replaces a rate that was set.
default_rate_always(rate) == DEFAULT_SAMPLERATE

\* The default is applied if the samplerate has not been set yet.
default_rate(rate) == IF rate = 0 THEN DEFAULT_SAMPLERATE ELSE rate

\* dev_open() up to the call of lwla_init_device().  usb_ok and claim_ok
\* are the outcomes of sr_usb_open() and libusb_claim_interface().
dev_open(d, usb_ok, claim_ok) ==
    /\ pc = "idle"
    /\ d \in recs
    /\ IF ~usb_ok
       THEN /\ last' = Returned(Called(Call("dev_open", d), <<"sr_usb_open">>), SR_ERR)
            /\ UNCHANGED <<sdi, devc, pc>>
       ELSE IF ~claim_ok
       THEN /\ sdi' = [sdi EXCEPT ![d].devhdl = TRUE]
            /\ last' = Returned(Called(Call("dev_open", d),
                                       <<"sr_usb_open", "libusb_claim_interface">>), SR_ERR)
            /\ UNCHANGED <<devc, pc>>
       ELSE /\ sdi' = [sdi EXCEPT ![d].devhdl = TRUE, ![d].status = SR_ST_INITIALIZING]
            /\ devc' = [devc EXCEPT ![d].samplerate = default_rate(@)]
            /\ last' = Called(Call("dev_open", d),
                              <<"sr_usb_open", "libusb_claim_interface">>)
            /\ pc' = "open_init"
    /\ UNCHANGED <<instances, recs, acqs, sources>>

\* Variant: a failed initialisation closes the connection again and
\* returns the device to inactive.
dev_open_init_rolls_back(ret) ==
    /\ pc = "open_init"
    /\ sdi' = IF ret = SR_OK
              THEN [sdi EXCEPT ![last.dev].status = SR_ST_ACTIVE]
              ELSE [sdi EXCEPT ![last.dev].status = SR_ST_INACTIVE,
                               ![last.dev].devhdl = FALSE]
    /\ last' = Returned(Called(last, <<"lwla_init_device">>), ret)
    /\ pc' = "idle"
    /\ UNCHANGED <<instances, recs, devc, acqs, sources>>

\* lwla_init_device() returns ret; dev_open() marks the device active on
\* success and returns ret.
dev_open_init(ret) ==
    /\ pc = "open_init"
    /\ sdi' = [sdi EXCEPT ![last.dev].status = IF ret = SR_OK THEN SR_ST_ACTIVE ELSE @]
    /\ last' = Returned(Called(last, <<"lwla_init_device">>), ret)
    /\ pc' = "idle"
    /\ UNCHANGED <<instances, recs, devc, acqs, sources>>

(* ------------------------------ dev_close ----------------------------- *)

\* Variant: the shutdown sequence runs whether or not a handle is present.
not_connected_unchecked(inst) == FALSE

\* The check for a missing connection handle that opens dev_close().
not_connected(inst) == ~inst.devhdl

\* Variant: a close also takes the device out of the registry.
dev_close_unregisters(d) ==
    /\ pc = "idle"
    /\ d \in recs
    /\ IF not_connected(sdi[d])
       THEN /\ last' = Returned(Call("dev_close", d), SR_OK)
            /\ UNCHANGED <<devc, pc>>
       ELSE /\ devc' = [devc EXCEPT ![d].selected_clock_source = CLOCK_SOURCE_NONE]
            /\ last' = Call("dev_close", d)
            /\ pc' = "close_clock"
    /\ LET Other(x) == x # d
       IN  instances' = SelectSeq(instances, Other)
    /\ UNCHANGED <<recs, sdi, acqs, sources>>

\* dev_close() up to the call of lwla_set_clock_source().
dev_close(d) ==
    /\ pc = "idle"
    /\ d \in recs
    /\ IF not_connected(sdi[d])
       THEN /\ last' = Returned(Call("dev_close", d), SR_OK)
            /\ UNCHANGED <<devc, pc>>
       ELSE /\ devc' = [devc EXCEPT ![d].selected_clock_source = CLOCK_SOURCE_NONE]
            /\ last' = Call("dev_close", d)
            /\ pc' = "close_clock"
    /\ UNCHANGED <<instances, recs, sdi, acqs, sources>>

\* Variant: a failed shutdown step is returned and the device is left
\* connected.
dev_close_finish_propagates(ret) ==
    /\ pc = "close_clock"
    /\ IF ret = SR_OK
       THEN /\ sdi' = [sdi EXCEPT ![last.dev].devhdl = FALSE,
                                  ![last.dev].status = SR_ST_INACTIVE]
            /\ last' = Returned(Called(last, <<"lwla_set_clock_source",
                                               "libusb_release_interface",
                                               "libusb_close">>), SR_OK)
       ELSE /\ last' = Returned(Called(last, <<"lwla_set_clock_source">>), ret)
            /\ UNCHANGED sdi
    /\ pc' = "idle"
    /\ UNCHANGED <<instances, recs, devc, acqs, sources>>

\* lwla_set_clock_source() returns ret, which is only logged; the interface
\* and the connection are released and the device becomes inactive.
dev_close_finish(ret) ==
    /\ pc = "close_clock"
    /\ sdi' = [sdi EXCEPT ![last.dev].devhdl = FALSE, ![last.dev].status = SR_ST_INACTIVE]
    /\ last' = Returned(Called(last, <<"lwla_set_clock_source",
                                       "libusb_release_interface", "libusb_close">>), SR_OK)
    /\ pc' = "idle"
    /\ UNCHANGED <<instances, recs, devc, acqs, sources>>

(* ------------------------------ config_set ---------------------------- *)

\* Variant: the highest rate itself is turned away.
rate_rejected_at_max(rate) ==
    rate >= samplerates[1] \/ rate < samplerates[Len(samplerates)]

\* The range check on a requested sample rate: the table is in descending
\* order, so its first entry is the highest and its last the lowest.
rate_rejected(rate) ==
    rate > samplerates[1] \/ rate < samplerates[Len(samplerates)]

\* config_set() up to its return or, for the external-clock key on an
\* active device, up to the call of lwla_set_clock_source().
config_set(d, key, data) ==
    /\ pc = "idle"
    /\ d \in recs
    /\ CASE key = SR_CONF_SAMPLERATE ->
              IF rate_rejected(data)
              THEN /\ last' = Returned(CallWith("config_set", d, <<key, data>>), SR_ERR_SAMPLERATE)
                   /\ UNCHANGED <<devc, pc>>
              ELSE /\ devc' = [devc EXCEPT ![d].samplerate = data]
                   /\ last' = Returned(CallWith("config_set", d, <<key, data>>), SR_OK)
                   /\ UNCHANGED pc
         [] key = SR_CONF_LIMIT_SAMPLES ->
              /\ devc' = [devc EXCEPT ![d].limit_samples = data]
              /\ last' = Returned(CallWith("config_set", d, <<key, data>>), SR_OK)
              /\ UNCHANGED pc
         [] key = SR_CONF_EXTERNAL_CLOCK ->
              /\ devc' = [devc EXCEPT ![d].selected_clock_source =
                              IF data THEN CLOCK_SOURCE_EXT_RISE ELSE CLOCK_SOURCE_INT]
              /\ IF sdi[d].status = SR_ST_ACTIVE
                 THEN /\ last' = CallWith("config_set", d, <<key, data>>)
                      /\ pc' = "config_clock"
                 ELSE /\ last' = Returned(CallWith("config_set", d, <<key, data>>), SR_OK)
                      /\ UNCHANGED pc
         [] OTHER ->
              /\ last' = Returned(CallWith("config_set", d, <<key, data>>), SR_ERR_NA)
              /\ UNCHANGED <<devc, pc>>
    /\ UNCHANGED <<instances, recs, sdi, acqs, sources>>

\* lwla_set_clock_source() returns ret, which config_set() returns.
config_set_clock(ret) ==
    /\ pc = "config_clock"
    /\ last' = Returned(Called(last, <<"lwla_set_clock_source">>), ret)
    /\ pc' = "idle"
    /\ UNCHANGED <<instances, recs, sdi, devc, acqs, sources>>

(* ------------------------ dev_acquisition_start ----------------------- *)

\* Variant: only an inactive device is turned away.
not_active_inactive_only(inst) == inst.status = SR_ST_INACTIVE

\* The status check that opens dev_acquisition_start().
not_active(inst) == inst.status # SR_ST_ACTIVE

\* Variant: the attached state is not looked at.
in_progress_unchecked(dc) == FALSE

\* The check for an acquisition state still attached.
in_progress(dc) == dc.acquisition # NULL

\* Variant: a start whose compilation fails returns without freeing the
\* state it allocated.
dev_acquisition_start_leaks(d, alloc_ok) ==
    /\ pc = "idle"
    /\ d \in recs
    /\ IF not_active(sdi[d])
       THEN /\ last' = Returned(Call("dev_acquisition_start", d), SR_ERR_DEV_CLOSED)
            /\ UNCHANGED <<devc, acqs, pc>>
       ELSE IF in_progress(devc[d])
       THEN /\ last' = Returned(Call("dev_acquisition_start", d), SR_ERR)
            /\ UNCHANGED <<devc, acqs, pc>>
       ELSE IF ~alloc_ok \/ SessionIds \ acqs = {}
       THEN /\ last' = Returned(Called(Call("dev_acquisition_start", d),
                                       <<"lwla_alloc_acquisition_state">>), SR_ERR_MALLOC)
            /\ UNCHANGED <<devc, acqs, pc>>
       ELSE
            LET acq == FreshSession
                cleared == [devc[d] EXCEPT !.stopping_in_progress = FALSE,
                                           !.transfer_error = FALSE]
                cfg == configure_probes(cleared, sdi[d].probes)
            IN  /\ acqs' = acqs \cup {acq}
                /\ IF cfg.ret # SR_OK
                   THEN /\ devc' = [devc EXCEPT ![d] = cfg.devc]
                        /\ last' = Returned(Called(Call("dev_acquisition_start", d),
                                                   <<"lwla_alloc_acquisition_state">>),
                                            cfg.ret)
                        /\ UNCHANGED pc
                   ELSE /\ devc' = [devc EXCEPT ![d] = [cfg.devc EXCEPT !.acquisition = acq]]
                        /\ last' = Called(Call("dev_acquisition_start", d),
                                          <<"lwla_alloc_acquisition_state">>)
                        /\ pc' = "start_setup"
    /\ UNCHANGED <<instances, recs, sdi, sources>>

\* dev_acquisition_start() up to the call of lwla_setup_acquisition().
\* alloc_ok is whether lwla_alloc_acquisition_state() can succeed.
dev_acquisition_start(d, alloc_ok) ==
    /\ pc = "idle"
    /\ d \in recs
    /\ IF not_active(sdi[d])
       THEN /\ last' = Returned(Call("dev_acquisition_start", d), SR_ERR_DEV_CLOSED)
            /\ UNCHANGED <<devc, acqs, pc>>
       ELSE IF in_progress(devc[d])
       THEN /\ last' = Returned(Call("dev_acquisition_start", d), SR_ERR)
            /\ UNCHANGED <<devc, acqs, pc>>
       ELSE IF ~alloc_ok \/ SessionIds \ acqs = {}
       THEN /\ last' = Returned(Called(Call("dev_acquisition_start", d),
                                       <<"lwla_alloc_acquisition_state">>), SR_ERR_MALLOC)
            /\ UNCHANGED <<devc, acqs, pc>>
       ELSE
            LET acq == FreshSession
                cleared == [devc[d] EXCEPT !.stopping_in_progress = FALSE,
                                           !.transfer_error = FALSE]
                cfg == configure_probes(cleared, sdi[d].probes)
            IN  IF cfg.ret # SR_OK
                THEN /\ devc' = [devc EXCEPT ![d] = cfg.devc]
                     /\ acqs' = FreeSession(acqs \cup {acq}, acq)
                     /\ last' = Returned(Called(Call("dev_acquisition_start", d),
                                                <<"lwla_alloc_acquisition_state",
                                                  "lwla_free_acquisition_state">>), cfg.ret)
                     /\ UNCHANGED pc
                ELSE /\ devc' = [devc EXCEPT ![d] = [cfg.devc EXCEPT !.acquisition = acq]]
                     /\ acqs' = acqs \cup {acq}
                     /\ last' = Called(Call("dev_acquisition_start", d),
                                       <<"lwla_alloc_acquisition_state">>)
                     /\ pc' = "start_setup"
    /\ UNCHANGED <<instances, recs, sdi, sources>>

\* Variant: the failure path frees the state but leaves it attached.
start_failed_attached(call, ret) ==
    /\ acqs' = FreeSession(acqs, devc[last.dev].acquisition)
    /\ last' = Returned(Called(last, <<call, "lwla_free_acquisition_state">>), ret)
    /\ pc' = "idle"
    /\ UNCHANGED <<devc, sources>>

\* The failure path after the state was attached: detach, free, return ret.
start_failed(call, ret) ==
    /\ devc' = [devc EXCEPT ![last.dev].acquisition = NULL]
    /\ acqs' = FreeSession(acqs, devc[last.dev].acquisition)
    /\ last' = Returned(Called(last, <<call, "lwla_free_acquisition_state">>), ret)
    /\ pc' = "idle"
    /\ UNCHANGED sources

\* lwla_setup_acquisition() returns ret.
dev_acquisition_setup(ret) ==
    /\ pc = "start_setup"
    /\ IF ret # SR_OK
       THEN start_failed("lwla_setup_acquisition", ret)
       ELSE /\ last' = Called(last, <<"lwla_setup_acquisition">>)
            /\ pc' = "start_capture"
            /\ UNCHANGED <<devc, acqs, sources>>
    /\ UNCHANGED <<instances, recs, sdi>>

\* Variant: the device is added to the watcher before the result of
\* lwla_start_acquisition() is looked at.
dev_acquisition_capture_registers_first(ret) ==
    /\ pc = "start_capture"
    /\ sources' = sources \cup {last.dev}
    /\ IF ret # SR_OK
       THEN /\ devc' = [devc EXCEPT ![last.dev].acquisition = NULL]
            /\ acqs' = FreeSession(acqs, devc[last.dev].acquisition)
            /\ last' = Returned(Called(last, <<"usb_source_add", "lwla_start_acquisition",
                                               "lwla_free_acquisition_state">>), ret)
       ELSE /\ last' = Returned(Called(last, <<"usb_source_add", "lwla_start_acquisition",
                                               "std_session_send_df_header">>), SR_OK)
            /\ UNCHANGED <<devc, acqs>>
    /\ pc' = "idle"
    /\ UNCHANGED <<instances, recs, sdi>>

\* lwla_start_acquisition() returns ret; on success the device is added to
\* the I/O watcher and the header packet is sent.
dev_acquisition_capture(ret) ==
    /\ pc = "start_capture"
    /\ IF ret # SR_OK
       THEN start_failed("lwla_start_acquisition", ret)
       ELSE /\ sources' = sources \cup {last.dev}
            /\ last' = Returned(Called(last, <<"lwla_start_acquisition", "usb_source_add",
                                               "std_session_send_df_header">>), SR_OK)
            /\ pc' = "idle"
            /\ UNCHANGED <<devc, acqs>>
    /\ UNCHANGED <<instances, recs, sdi>>

(* ------------------------ dev_acquisition_stop ------------------------ *)

\* Variant: stop marks the device inactive at once.
dev_acquisition_stop_inactive(d) ==
    /\ pc = "idle"
    /\ d \in recs
    /\ IF sdi[d].status # SR_ST_ACTIVE
       THEN /\ last' = Returned(Call("dev_acquisition_stop", d), SR_ERR_DEV_CLOSED)
            /\ UNCHANGED sdi
       ELSE /\ sdi' = [sdi EXCEPT ![d].status = SR_ST_INACTIVE]
            /\ last' = Returned(Call("dev_acquisition_stop", d), SR_OK)
    /\ UNCHANGED <<instances, recs, devc, acqs, sources, pc>>

\* Variant: stop tears the acquisition down itself instead of leaving it to
\* the data callback.
dev_acquisition_stop_teardown(d) ==
    /\ pc = "idle"
    /\ d \in recs
    /\ IF sdi[d].status # SR_ST_ACTIVE
       THEN /\ last' = Returned(Call("dev_acquisition_stop", d), SR_ERR_DEV_CLOSED)
            /\ UNCHANGED <<sdi, devc, acqs>>
       ELSE /\ sdi' = [sdi EXCEPT ![d].status = SR_ST_STOPPING]
            /\ devc' = [devc EXCEPT ![d].acquisition = NULL]
            /\ acqs' = FreeSession(acqs, devc[d].acquisition)
            /\ last' = Returned(Call("dev_acquisition_stop", d), SR_OK)
    /\ UNCHANGED <<instances, recs, sources, pc>>

\* Variant: a stop on a stopping device makes it active again.
dev_acquisition_stop_toggles(d) ==
    /\ pc = "idle"
    /\ d \in recs
    /\ IF sdi[d].status = SR_ST_STOPPING
       THEN /\ sdi' = [sdi EXCEPT ![d].status = SR_ST_ACTIVE]
            /\ last' = Returned(Call("dev_acquisition_stop", d), SR_OK)
       ELSE IF sdi[d].status # SR_ST_ACTIVE
       THEN /\ last' = Returned(Call("dev_acquisition_stop", d), SR_ERR_DEV_CLOSED)
            /\ UNCHANGED sdi
       ELSE /\ sdi' = [sdi EXCEPT ![d].status = SR_ST_STOPPING]
            /\ last' = Returned(Call("dev_acquisition_stop", d), SR_OK)
    /\ UNCHANGED <<instances, recs, devc, acqs, sources, pc>>

\* dev_acquisition_stop(): an active device is marked stopping.
dev_acquisition_stop(d) ==
    /\ pc = "idle"
    /\ d \in recs
    /\ IF sdi[d].status # SR_ST_ACTIVE
       THEN /\ last' = Returned(Call("dev_acquisition_stop", d), SR_ERR_DEV_CLOSED)
            /\ UNCHANGED sdi
       ELSE /\ sdi' = [sdi EXCEPT ![d].status = SR_ST_STOPPING]
            /\ last' = Returned(Call("dev_acquisition_stop", d), SR_OK)
    /\ UNCHANGED <<instances, recs, devc, acqs, sources, pc>>

(* ------------------- collaborators outside this file ------------------ *)

\* The data-ready callback the watcher runs for a registered device with a
\* capture in flight.  more: the capture goes on unless a stop was asked
\* for; error: a transfer failed.  Ending the capture releases the
\* acquisition state, removes the source and returns the device to active.
lwla_receive_data(d, more, error) ==
    /\ pc = "idle"
    /\ d \in recs \cap sources
    /\ devc[d].acquisition # NULL
    /\ sdi[d].status \in {SR_ST_ACTIVE, SR_ST_STOPPING}
    /\ IF more /\ ~error /\ sdi[d].status = SR_ST_ACTIVE
       THEN UNCHANGED <<sdi, devc, acqs, sources>>
       ELSE /\ sdi' = [sdi EXCEPT ![d].status = SR_ST_ACTIVE]
            /\ devc' = [devc EXCEPT ![d].acquisition = NULL,
                                    ![d].transfer_error = @ \/ error]
            /\ acqs' = FreeSession(acqs, devc[d].acquisition)
            /\ sources' = sources \ {d}
    /\ last' = Returned(Call("lwla_receive_data", d), SR_OK)
    /\ UNCHANGED <<instances, recs, pc>>

\* The client enables channels and sets trigger strings on a device's
\* channel list between operations.
set_probes(d, probes) ==
    /\ pc = "idle"
    /\ d \in recs
    /\ probes # sdi[d].probes
    /\ sdi' = [sdi EXCEPT ![d].probes = probes]
    /\ last' = Returned(Call("set_probes", d), SR_OK)
    /\ UNCHANGED <<instances, recs, devc, acqs, sources, pc>>

(* ------------------------------- inputs ------------------------------- *)

\* Return codes of the transport and the protocol engine.
ExtResults == {SR_OK, SR_ERR, "SR_ERR_TIMEOUT"}

RateMin == CHOOSE r \in Range(samplerates) : \A q \in Range(samplerates) : r <= q
RateMax == CHOOSE r \in Range(samplerates) : \A q \in Range(samplerates) : r >= q

\* Requested rates: below, at and above each end of the table, and a rate
\* inside the range that the table does not list.
RateInputs == {RateMin - 1, RateMin, RateMin + 50, RateMax, RateMax + 1}

LimitInputs == {1000}

\* Channel lists a client sets: the scenario list, an unsupported symbol,
\* a two-stage trigger, and a list one longer than the channel count.
ListInputs ==
    { << [enabled |-> TRUE, trigger |-> <<"r">>],
         [enabled |-> TRUE, trigger |-> <<>>],
         [enabled |-> FALSE, trigger |-> <<>>] >>,
      << [enabled |-> TRUE, trigger |-> <<"1">>],
         [enabled |-> TRUE, trigger |-> <<"x">>] >>,
      << [enabled |-> TRUE, trigger |-> <<"f">>],
         [enabled |-> TRUE, trigger |-> <<"0", "r">>] >>,
      [i \in 1..(NUM_PROBES + 1) |-> [enabled |-> TRUE, trigger |-> <<"1">>]] }

(* --------------------------- specifications --------------------------- *)

\* The handlers' continuations after a call into the protocol engine.
Continue ==
    \/ \E ret \in ExtResults : dev_open_init(ret)
    \/ \E ret \in ExtResults : dev_close_finish(ret)
    \/ \E ret \in ExtResults : config_set_clock(ret)
    \/ \E ret \in ExtResults : dev_acquisition_setup(ret)
    \/ \E ret \in ExtResults : dev_acquisition_capture(ret)

\* Open, close, start, stop and the data callback on device d.
Lifecycle(d) ==
    \/ \E usb_ok, claim_ok \in BOOLEAN : dev_open(d, usb_ok, claim_ok)
    \/ dev_close(d)
    \/ \E alloc_ok \in BOOLEAN : dev_acquisition_start(d, alloc_ok)
    \/ dev_acquisition_stop(d)
    \/ \E more, error \in BOOLEAN : lwla_receive_data(d, more, error)

\* Several devices, rescans and clears; the client leaves rates, limits and
\* channel lists as scan() made them and only switches the clock.
Next ==
    \/ \E made \in 0..MaxFound : scan(MaxFound, made)
    \/ dev_clear
    \/ \E d \in recs : Lifecycle(d)
    \/ \E d \in recs : config_set(d, SR_CONF_EXTERNAL_CLOCK, TRUE)
    \/ Continue

Spec == Init /\ [][Next]_vars

\* One device, scanned once, with every configuration input.
NextDev ==
    \/ recs = {} /\ scan(1, 1)
    \/ \E d \in recs : Lifecycle(d)
    \/ \E d \in recs, r \in RateInputs : config_set(d, SR_CONF_SAMPLERATE, r)
    \/ \E d \in recs, n \in LimitInputs : config_set(d, SR_CONF_LIMIT_SAMPLES, n)
    \/ \E d \in recs, b \in BOOLEAN : config_set(d, SR_CONF_EXTERNAL_CLOCK, b)
    \/ \E d \in recs : config_set(d, SR_CONF_OTHER, 0)
    \/ \E d \in recs, l \in ListInputs : set_probes(d, l)
    \/ Continue

SpecDev == Init /\ [][NextDev]_vars

\* Contexts a device can carry into a start: opened and never started, or
\* opened with the masks of an earlier acquisition that has ended.
PriorLists ==
    { l \in { <<>>, gen_probe_list(NUM_PROBES) } \cup ListInputs : Len(l) <= NUM_PROBES }
OpenedDevc == [ZeroDevc EXCEPT !.samplerate = DEFAULT_SAMPLERATE]
PriorDevcs == { configure_probes(OpenedDevc, l).devc : l \in PriorLists }

\* One open, active device whose channel list the client has set to any
\* list of up to NUM_PROBES + 1 entries.
InitCompile ==
    /\ instances = <<1>>
    /\ recs = {1}
    /\ \E l \in AllProbeLists :
           sdi = [d \in RecIds |-> IF d = 1
                                   THEN [status |-> SR_ST_ACTIVE, devhdl |-> TRUE, probes |-> l]
                                   ELSE NoSdi]
    /\ \E dc \in PriorDevcs :
           devc = [d \in RecIds |-> IF d = 1 THEN dc ELSE ZeroDevc]
    /\ acqs = {}
    /\ sources = {}
    /\ pc = "idle"
    /\ last = Returned(Call("set_probes", 1), SR_OK)

NextCompile ==
    \/ \E d \in recs, alloc_ok \in BOOLEAN : dev_acquisition_start(d, alloc_ok)
    \/ \E ret \in {SR_OK, SR_ERR} : dev_acquisition_setup(ret)
    \/ \E ret \in {SR_OK, SR_ERR} : dev_acquisition_capture(ret)
    \/ \E d \in recs, more \in BOOLEAN : lwla_receive_data(d, more, FALSE)

SpecCompile == InitCompile /\ [][NextCompile]_vars

(* ------------------------------ properties ---------------------------- *)

\* The step is the entry of operation op on record d.
Begins(op, d) == pc = "idle" /\ last'.op = op /\ last'.dev = d

\* The last operation was op on record d and has returned.
Done(op, d) == pc = "idle" /\ last.op = op /\ last.dev = d

\* C1: a start on a device whose status is not ACTIVE returns
\* SR_ERR_DEV_CLOSED without calling the allocator, and leaves the set of
\* acquisition states, the device's attached state and its status as they
\* were.
C1_StartNeedsActive ==
    [][\A d \in RecIds :
          (Begins("dev_acquisition_start", d) /\ sdi[d].status # SR_ST_ACTIVE)
          => /\ last'.ret = SR_ERR_DEV_CLOSED
             /\ "lwla_alloc_acquisition_state" \notin Range(last'.calls)
             /\ acqs' = acqs
             /\ devc'[d].acquisition = devc[d].acquisition
             /\ sdi'[d].status = sdi[d].status]_vars

\* A start was refused on a stopping device that still holds its state.
C1_Witness ==
    \E d \in recs :
        /\ Done("dev_acquisition_start", d)
        /\ last.ret = SR_ERR_DEV_CLOSED
        /\ sdi[d].status = SR_ST_STOPPING
        /\ devc[d].acquisition # NULL

\* C2: a start on an ACTIVE device that still holds the acquisition state
\* of an earlier start returns SR_ERR, calls no allocator, and leaves the
\* device record, its context (the attached state included) and the set of
\* acquisition states unchanged.
C2_SecondStartRefused ==
    [][\A d \in RecIds :
          (/\ Begins("dev_acquisition_start", d)
           /\ sdi[d].status = SR_ST_ACTIVE
           /\ devc[d].acquisition # NULL)
          => /\ last'.ret = SR_ERR
             /\ last'.calls = <<>>
             /\ acqs' = acqs
             /\ devc'[d] = devc[d]
             /\ sdi'[d] = sdi[d]
             /\ devc[d].acquisition \in acqs']_vars

\* A start was refused on an active device whose earlier start had gone
\* through (the device is registered with the watcher).
C2_Witness ==
    \E d \in recs :
        /\ Done("dev_acquisition_start", d)
        /\ last.ret = SR_ERR
        /\ last.calls = <<>>
        /\ sdi[d].status = SR_ST_ACTIVE
        /\ devc[d].acquisition # NULL
        /\ d \in sources

\* C3: every acquisition state that is allocated is attached to exactly one
\* device context (a context has a single slot, so it holds at most one).
C3_SessionOwnedOnce ==
    \A a \in acqs : Cardinality({ d \in recs : devc[d].acquisition = a }) = 1

\* Two devices each hold an acquisition state, after a start has returned.
C3_Witness ==
    /\ pc = "idle"
    /\ \E d, e \in recs :
           /\ d # e
           /\ devc[d].acquisition # NULL
           /\ devc[e].acquisition # NULL
           /\ devc[d].acquisition # devc[e].acquisition

\* C4: once a close on a device has returned, the device is INACTIVE and
\* the close returned SR_OK; a close that follows directly on the same
\* device returns SR_OK, makes no external call and changes nothing but the
\* record of the last operation.
C4_CloseIdempotent ==
    /\ [](\A d \in RecIds :
             Done("dev_close", d)
             => last.ret = SR_OK /\ sdi[d].status = SR_ST_INACTIVE)
    /\ [][\A d \in RecIds :
             (Done("dev_close", d) /\ Begins("dev_close", d))
             => /\ pc' = "idle"
                /\ last'.ret = SR_OK
                /\ last'.calls = <<>>
                /\ sdi'[d].status = SR_ST_INACTIVE
                /\ UNCHANGED <<instances, recs, sdi, devc, acqs, sources>>]_vars

\* A close found no connection on a device that an earlier close had shut
\* down while an acquisition was running.
C4_Witness ==
    \E d \in recs :
        /\ Done("dev_close", d)
        /\ last.calls = <<>>
        /\ last.ret = SR_OK
        /\ sdi[d].status = SR_ST_INACTIVE
        /\ devc[d].acquisition # NULL
        /\ devc[d].selected_clock_source = CLOCK_SOURCE_NONE

ClientOps ==
    {"dev_open", "dev_close", "dev_acquisition_start", "dev_acquisition_stop"}

ListedTransitions ==
    { <<SR_ST_INACTIVE, SR_ST_INITIALIZING>>,
      <<SR_ST_INITIALIZING, SR_ST_ACTIVE>>,
      <<SR_ST_ACTIVE, SR_ST_STOPPING>>,
      <<SR_ST_STOPPING, SR_ST_INACTIVE>>,
      <<SR_ST_INITIALIZING, SR_ST_INACTIVE>> }

\* C5 as stated: every status change made by open, close, start or stop is
\* one of INACTIVE->INITIALIZING, INITIALIZING->ACTIVE, ACTIVE->STOPPING,
\* STOPPING->INACTIVE, INITIALIZING->INACTIVE.
C5_OnlyListedTransitions ==
    [][\A d \in RecIds :
          (last'.op \in ClientOps /\ sdi'[d].status # sdi[d].status)
          => <<sdi[d].status, sdi'[d].status>> \in ListedTransitions]_vars

\* C5 as amended: a status change made by open, close, start or stop is on
\* the device operated on and is: any status -> INITIALIZING or
\* INITIALIZING -> ACTIVE, by open; any status -> INACTIVE, by close;
\* ACTIVE -> STOPPING, by stop.  Start changes no status.
C5_StatusTransitions ==
    [][\A d \in RecIds :
          (last'.op \in ClientOps /\ sdi'[d].status # sdi[d].status)
          => /\ d = last'.dev
             /\ CASE last'.op = "dev_open" ->
                       \/ sdi'[d].status = SR_ST_INITIALIZING
                       \/ /\ sdi[d].status = SR_ST_INITIALIZING
                          /\ sdi'[d].status = SR_ST_ACTIVE
                  [] last'.op = "dev_close" ->
                       sdi'[d].status = SR_ST_INACTIVE
                  [] last'.op = "dev_acquisition_stop" ->
                       /\ sdi[d].status = SR_ST_ACTIVE
                       /\ sdi'[d].status = SR_ST_STOPPING
                  [] OTHER -> FALSE]_vars

\* A close has shut down a device whose acquisition was still registered
\* with the watcher: the status went to INACTIVE from ACTIVE or STOPPING.
C5_Witness ==
    \E d \in recs :
        /\ Done("dev_close", d)
        /\ last.calls # <<>>
        /\ sdi[d].status = SR_ST_INACTIVE
        /\ devc[d].acquisition # NULL
        /\ d \in sources

\* C6: setting the sample rate to r succeeds iff r lies between the lowest
\* and the highest rate of the table, listed or not; on success the
\* context's samplerate is r, otherwise SR_ERR_SAMPLERATE is returned and
\* the samplerate is unchanged.
C6_RateRange ==
    [][\A d \in RecIds :
          (Begins("config_set", d) /\ last'.arg[1] = SR_CONF_SAMPLERATE)
          => LET r == last'.arg[2]
             IN  IF RateMin <= r /\ r <= RateMax
                 THEN last'.ret = SR_OK /\ devc'[d].samplerate = r
                 ELSE /\ last'.ret = SR_ERR_SAMPLERATE
                      /\ devc'[d].samplerate = devc[d].samplerate]_vars

\* A rate inside the range that the table does not list was accepted.
C6_Witness ==
    \E d \in recs :
        /\ Done("config_set", d)
        /\ last.arg[1] = SR_CONF_SAMPLERATE
        /\ last.arg[2] = RateMin + 50
        /\ last.arg[2] \notin Range(samplerates)
        /\ last.ret = SR_OK
        /\ devc[d].samplerate = RateMin + 50

\* C7: in every state of every device context, also after a start whose
\* compilation failed part-way, trigger_edge_mask is within trigger_mask,
\* trigger_mask is within channel_mask, and channel_mask has no bit at or
\* above NUM_PROBES.
C7_MaskSubsets ==
    \A d \in recs :
        /\ BitSubset(devc[d].trigger_edge_mask, devc[d].trigger_mask)
        /\ BitSubset(devc[d].trigger_mask, devc[d].channel_mask)
        /\ devc[d].channel_mask < 2 ^ NUM_PROBES

\* A start failed in compilation and left masks behind in which the three
\* masks differ.
C7_Witness ==
    \E d \in recs :
        /\ Done("dev_acquisition_start", d)
        /\ last.ret = SR_ERR
        /\ "lwla_free_acquisition_state" \in Range(last.calls)
        /\ devc[d].trigger_edge_mask # 0
        /\ devc[d].trigger_edge_mask # devc[d].trigger_mask
        /\ devc[d].trigger_mask # devc[d].channel_mask

\* The step is the entry of a start on d that got as far as compilation.
Compiles(d) ==
    /\ Begins("dev_acquisition_start", d)
    /\ "lwla_alloc_acquisition_state" \in Range(last'.calls)
    /\ last'.ret # SR_ERR_MALLOC

Masks(dc) ==
    <<dc.channel_mask, dc.trigger_mask, dc.trigger_edge_mask, dc.trigger_values>>

\* C8: compilation of a channel list longer than NUM_PROBES fails and
\* leaves the four masks of the context as they were before the call.
C8_TooManyChannelsAtomic ==
    [][\A d \in RecIds :
          (Compiles(d) /\ Len(sdi[d].probes) > NUM_PROBES)
          => /\ last'.ret = SR_ERR
             /\ Masks(devc'[d]) = Masks(devc[d])]_vars

\* Lists of at most NUM_PROBES channels whose triggers are empty or one of
\* the four symbols.
ValidList(l) ==
    /\ Len(l) <= NUM_PROBES
    /\ \A i \in 1..Len(l) : l[i].trigger \in { <<>>, <<"0">>, <<"1">>, <<"r">>, <<"f">> }

\* Mask m has, for each channel i of l, bit i-1 set iff want(l[i]), and no
\* bit beyond the list.
HasBits(m, l, want(_)) ==
    /\ \A i \in 1..Len(l) : Bit(m, i - 1) <=> want(l[i])
    /\ m < 2 ^ Len(l)

WantChannel(p) == p.enabled
WantTrigger(p) == p.enabled /\ p.trigger # <<>>
WantEdge(p) == p.enabled /\ p.trigger \in { <<"r">>, <<"f">> }
WantValue(p) == p.enabled /\ p.trigger \in { <<"1">>, <<"r">> }

Scenario ==
    << [enabled |-> TRUE, trigger |-> <<"r">>],
       [enabled |-> TRUE, trigger |-> <<>>],
       [enabled |-> FALSE, trigger |-> <<>>] >>

\* C9: compilation of a list of at most NUM_PROBES channels with triggers
\* empty or one of 0, 1, r, f succeeds, and whatever the masks were before:
\* channel bit i is set iff channel i is enabled; trigger bit i iff it is
\* enabled with a non-empty trigger; edge bit i iff that trigger is r or f;
\* value bit i iff that trigger is 1 or r.  The list [enabled r, enabled
\* no trigger, disabled] gives 2^0 + 2^1, 2^0, 2^0 and 2^0.
C9_CompileResult ==
    [][\A d \in RecIds :
          (Compiles(d) /\ ValidList(sdi[d].probes))
          => /\ pc' = "start_setup"
             /\ HasBits(devc'[d].channel_mask, sdi[d].probes, WantChannel)
             /\ HasBits(devc'[d].trigger_mask, sdi[d].probes, WantTrigger)
             /\ HasBits(devc'[d].trigger_edge_mask, sdi[d].probes, WantEdge)
             /\ HasBits(devc'[d].trigger_values, sdi[d].probes, WantValue)
             /\ sdi[d].probes = Scenario
                => Masks(devc'[d]) = <<2 + 1, 1, 1, 1>>]_vars

\* The scenario list was compiled over masks of an earlier acquisition and
\* the start is about to arm the hardware.
C9_Witness ==
    \E d \in recs :
        /\ pc = "start_setup"
        /\ last.dev = d
        /\ sdi[d].probes = Scenario
        /\ Masks(devc[d]) = <<2 + 1, 1, 1, 1>>

\* C10: when open gets past the transport open and the interface claim,
\* the samplerate it leaves for lwla_init_device() is the default if it was
\* 0 and the old value otherwise; a non-zero samplerate is never changed by
\* open, and nothing changes it while lwla_init_device() runs.
C10_DefaultBeforeInit ==
    /\ [](pc = "open_init"
             => /\ devc[last.dev].samplerate # 0
                /\ "lwla_init_device" \notin Range(last.calls))
    /\ [][\A d \in RecIds :
             Begins("dev_open", d)
             => /\ pc' = "open_init"
                   => devc'[d].samplerate =
                          IF devc[d].samplerate = 0
                          THEN DEFAULT_SAMPLERATE
                          ELSE devc[d].samplerate
                /\ devc[d].samplerate # 0
                   => devc'[d].samplerate = devc[d].samplerate]_vars
    /\ [][pc = "open_init" => UNCHANGED devc]_vars

\* An open is about to call lwla_init_device() with the default rate in
\* the context.
C10_Witness ==
    /\ pc = "open_init"
    /\ last.calls = <<"sr_usb_open", "libusb_claim_interface">>
    /\ devc[last.dev].samplerate = DEFAULT_SAMPLERATE
    /\ sdi[last.dev].status = SR_ST_INITIALIZING

\* C11: a stop on a device that is not ACTIVE returns SR_ERR_DEV_CLOSED and
\* changes nothing; a stop on an ACTIVE device returns SR_OK at once, without
\* any external call, sets the status to STOPPING and changes nothing else:
\* the acquisition state stays attached and allocated, the context, the
\* watcher and the registry are as they were.
C11_StopOnlyMarks ==
    [][\A d \in RecIds :
          Begins("dev_acquisition_stop", d)
          => /\ pc' = "idle"
             /\ last'.calls = <<>>
             /\ UNCHANGED <<instances, recs, devc, acqs, sources>>
             /\ IF sdi[d].status # SR_ST_ACTIVE
                THEN last'.ret = SR_ERR_DEV_CLOSED /\ sdi' = sdi
                ELSE /\ last'.ret = SR_OK
                     /\ sdi' = [sdi EXCEPT ![d].status = SR_ST_STOPPING]]_vars

\* A stop has succeeded on a device with a capture in flight: the device is
\* STOPPING, its acquisition state is still attached and allocated, and it
\* is still registered with the watcher.
C11_Witness ==
    \E d \in recs :
        /\ Done("dev_acquisition_stop", d)
        /\ last.ret = SR_OK
        /\ sdi[d].status = SR_ST_STOPPING
        /\ devc[d].acquisition \in acqs
        /\ d \in sources

\* The running or last start on d got as far as arming the engine and the
\* engine turned it down, at setup or at the start of the capture.
EngineFailed(l, d) ==
    /\ l.op = "dev_acquisition_start"
    /\ l.dev = d
    /\ "lwla_setup_acquisition" \in Range(l.calls)
    /\ l.ret \notin {SR_OK, "pending"}

\* C12: when lwla_setup_acquisition() or lwla_start_acquisition() fails
\* during a start, the start returns the engine's error, the state it
\* allocated is freed and detached, the device is still ACTIVE, it was not
\* added to the watcher and no header was sent; a start that follows
\* directly on the same device passes both state checks and reaches the
\* allocator.
C12_EngineFailureUnwinds ==
    /\ [][\A d \in RecIds :
             (pc \in {"start_setup", "start_capture"} /\ EngineFailed(last', d))
             => /\ pc' = "idle"
                /\ last'.ret \in ExtResults \ {SR_OK}
                /\ devc[d].acquisition # NULL
                /\ devc[d].acquisition \notin acqs'
                /\ devc'[d].acquisition = NULL
                /\ sdi'[d].status = SR_ST_ACTIVE
                /\ sources' = sources
                /\ d \notin sources'
                /\ "usb_source_add" \notin Range(last'.calls)
                /\ "std_session_send_df_header" \notin Range(last'.calls)]_vars
    /\ [][\A d \in RecIds :
             (pc = "idle" /\ EngineFailed(last, d) /\ Begins("dev_acquisition_start", d))
             => /\ last'.ret \notin {SR_ERR_DEV_CLOSED, SR_ERR}
                /\ last'.calls[1] = "lwla_alloc_acquisition_state"]_vars

\* A start has returned the engine's error from the start of the capture.
C12_Witness ==
    \E d \in recs :
        /\ pc = "idle"
        /\ EngineFailed(last, d)
        /\ "lwla_start_acquisition" \in Range(last.calls)
        /\ last.ret = "SR_ERR_TIMEOUT"
        /\ devc[d].acquisition = NULL
        /\ acqs = {}
        /\ sdi[d].status = SR_ST_ACTIVE

\* C13: no registered device is INACTIVE with an acquisition state still
\* attached: a close on a device with a capture outstanding has detached
\* and freed the state by the time it returns.
C13_CloseDestroysSession ==
    \A d \in recs : sdi[d].status = SR_ST_INACTIVE => devc[d].acquisition = NULL

\* C14: a record that a step takes out of the registry, by a clear or by a
\* rescan, is released in that step: the record and its context are freed
\* and the acquisition state it held, if any, is freed with them.
C14_RegistryClearedReleases ==
    [][\A d \in Range(instances) :
          d \notin Range(instances')
          => /\ d \notin recs'
             /\ devc[d].acquisition \notin acqs']_vars

\* C15: a close on a device with a connection handle, whatever its status,
\* sets the selected clock source to NONE before lwla_set_clock_source() is
\* called; whatever that call returns, the close then releases the
\* interface, closes the connection, clears the handle, sets the status to
\* INACTIVE and returns SR_OK.
C15_CloseUnconditional ==
    /\ [][\A d \in RecIds :
             (Begins("dev_close", d) /\ sdi[d].devhdl)
             => /\ pc' = "close_clock"
                /\ devc'[d].selected_clock_source = CLOCK_SOURCE_NONE
                /\ last'.calls = <<>>]_vars
    /\ [](pc = "close_clock"
          => /\ last.op = "dev_close"
             /\ devc[last.dev].selected_clock_source = CLOCK_SOURCE_NONE
             /\ sdi[last.dev].devhdl
             /\ last.calls = <<>>)
    /\ [][pc = "close_clock"
          => /\ pc' = "idle"
             /\ last'.op = "dev_close"
             /\ last'.dev = last.dev
             /\ last'.calls = <<"lwla_set_clock_source", "libusb_release_interface",
                                "libusb_close">>
             /\ last'.ret = SR_OK
             /\ ~sdi'[last.dev].devhdl
             /\ sdi'[last.dev].status = SR_ST_INACTIVE
             /\ devc'[last.dev].selected_clock_source = CLOCK_SOURCE_NONE]_vars

\* A close has shut down a connected device that held no acquisition state
\* and on which the client had set a sample limit.
C15_Witness ==
    \E d \in recs :
        /\ Done("dev_close", d)
        /\ last.ret = SR_OK
        /\ "libusb_close" \in Range(last.calls)
        /\ ~sdi[d].devhdl
        /\ sdi[d].status = SR_ST_INACTIVE
        /\ devc[d].selected_clock_source = CLOCK_SOURCE_NONE
        /\ devc[d].acquisition = NULL
        /\ devc[d].limit_samples # 0

\* Channel lists that compilation turns down: more than NUM_PROBES
\* channels, or an enabled channel with a trigger of more than one stage or
\* with a symbol other than 0, 1, r, f.
Rejected(l) ==
    \/ Len(l) > NUM_PROBES
    \/ \E i \in 1..Len(l) :
           /\ l[i].enabled
           /\ \/ Len(l[i].trigger) > 1
              \/ Len(l[i].trigger) = 1 /\ l[i].trigger[1] \notin {"0", "1", "r", "f"}

\* C16: a start whose channel list compilation turns down returns SR_ERR
\* having called only the allocator and the release of the state it
\* allocated: no state is left allocated or attached, the device record
\* (status ACTIVE) is unchanged, the engine is not armed or started, the
\* device is not added to the watcher and no header is sent.
C16_CompileFailureUnwinds ==
    [][\A d \in RecIds :
          (Compiles(d) /\ Rejected(sdi[d].probes))
          => /\ pc' = "idle"
             /\ last'.ret = SR_ERR
             /\ last'.calls = <<"lwla_alloc_acquisition_state",
                                "lwla_free_acquisition_state">>
             /\ acqs' = acqs
             /\ devc[d].acquisition = NULL
             /\ devc'[d].acquisition = NULL
             /\ sdi[d].status = SR_ST_ACTIVE
             /\ sdi' = sdi
             /\ sources' = sources]_vars

\* A start has failed on a list whose second channel carries a two-stage
\* trigger: nothing is allocated or attached and the device is active.
C16_Witness ==
    \E d \in recs :
        /\ Done("dev_acquisition_start", d)
        /\ last.ret = SR_ERR
        /\ last.calls = <<"lwla_alloc_acquisition_state", "lwla_free_acquisition_state">>
        /\ Len(sdi[d].probes) = 2
        /\ sdi[d].probes[2].enabled
        /\ Len(sdi[d].probes[2].trigger) = 2
        /\ devc[d].acquisition = NULL
        /\ acqs = {}
        /\ sdi[d].status = SR_ST_ACTIVE
        /\ d \notin sources

\* The external calls of a start that goes through, in order.
StartCalls ==
    <<"lwla_alloc_acquisition_state", "lwla_setup_acquisition", "lwla_start_acquisition",
      "usb_source_add", "std_session_send_df_header">>

\* C17: a start has called usb_source_add() and sent the header iff it
\* returns SR_OK, and then each exactly once, after the engine calls and
\* with the header last before the return; the acquisition state is
\* attached whenever the engine is being armed or started, and the device
\* is not yet with the watcher then; a device joins the watcher only in the
\* step in which a start returns SR_OK, and the data callback runs only
\* between operations for a device that is with the watcher.
C17_HeaderBeforeData ==
    /\ [](last.op = "dev_acquisition_start"
          => /\ last.ret = SR_OK <=> "usb_source_add" \in Range(last.calls)
             /\ last.ret = SR_OK <=> "std_session_send_df_header" \in Range(last.calls)
             /\ last.ret = SR_OK => last.calls = StartCalls /\ last.dev \in sources)
    /\ [](pc \in {"start_setup", "start_capture"}
          => /\ last.op = "dev_acquisition_start"
             /\ devc[last.dev].acquisition \in acqs
             /\ last.dev \notin sources
             /\ pc = "start_setup" => last.calls = <<"lwla_alloc_acquisition_state">>)
    /\ [][\A d \in RecIds :
             (d \in sources' /\ d \notin sources)
             => /\ pc = "start_capture"
                /\ last'.op = "dev_acquisition_start"
                /\ last'.dev = d
                /\ last'.ret = SR_OK]_vars
    /\ [][\A d \in RecIds :
             (last'.op = "lwla_receive_data" /\ last'.dev = d)
             => pc = "idle" /\ d \in sources /\ devc[d].acquisition \in acqs]_vars

\* The data callback has run for a device whose start had gone through and
\* has found the capture still going.
C17_Witness ==
    \E d \in recs :
        /\ Done("lwla_receive_data", d)
        /\ d \in sources
        /\ devc[d].acquisition \in acqs
        /\ sdi[d].status = SR_ST_ACTIVE

\* C18: an open that fails at sr_usb_open() or libusb_claim_interface()
\* returns an error and leaves the status as it was, with the connection
\* open if the claim was what failed; an open that fails in
\* lwla_init_device() returns the engine's error and leaves the device
\* INITIALIZING with the connection open.  A close that follows directly on
\* a failed open that left the connection open runs the shutdown sequence,
\* which ends with the device INACTIVE and the connection handle cleared.
C18_OpenFailure ==
    /\ [][\A d \in RecIds :
             (Begins("dev_open", d) /\ pc' = "idle")
             => /\ last'.ret # SR_OK
                /\ "lwla_init_device" \notin Range(last'.calls)
                /\ sdi'[d].status = sdi[d].status
                /\ "libusb_claim_interface" \in Range(last'.calls) => sdi'[d].devhdl]_vars
    /\ [][\A d \in RecIds :
             (pc = "open_init" /\ last.dev = d /\ last'.ret # SR_OK)
             => /\ last'.ret \in ExtResults
                /\ sdi[d].status = SR_ST_INITIALIZING
                /\ sdi'[d].status = SR_ST_INITIALIZING
                /\ sdi'[d].devhdl]_vars
    /\ [][\A d \in RecIds :
             (/\ Done("dev_open", d)
              /\ last.ret # SR_OK
              /\ sdi[d].devhdl
              /\ Begins("dev_close", d))
             => pc' = "close_clock"]_vars
    /\ [][\A d \in RecIds :
             (pc = "close_clock" /\ last.dev = d)
             => sdi'[d].status = SR_ST_INACTIVE /\ ~sdi'[d].devhdl]_vars

\* An open has returned the engine's timeout from the initialisation: the
\* device is INITIALIZING and connected.
C18_Witness ==
    \E d \in recs :
        /\ Done("dev_open", d)
        /\ last.ret = "SR_ERR_TIMEOUT"
        /\ "lwla_init_device" \in Range(last.calls)
        /\ sdi[d].status = SR_ST_INITIALIZING
        /\ sdi[d].devhdl

\* The operations a client applies to one device.
DeviceOps ==
    {"dev_open", "dev_close", "config_set", "dev_acquisition_start", "dev_acquisition_stop"}

\* C19: a step of open, close, config_set, start or stop on a device,
\* first or later, leaves the registry list and the set of records as they
\* are, and leaves the record (status, connection handle, channel list) and
\* the context (attached acquisition state included) of every other device
\* unchanged; an acquisition state held by another device stays allocated.
C19_OtherDevicesUntouched ==
    [][last'.op \in DeviceOps
       => /\ instances' = instances
          /\ recs' = recs
          /\ \A e \in RecIds \ {last'.dev} :
                 /\ sdi'[e] = sdi[e]
                 /\ devc'[e] = devc[e]
                 /\ devc[e].acquisition \in acqs => devc[e].acquisition \in acqs'
                 /\ e \in sources <=> e \in sources']_vars

\* A start has gone through on one device while another registered device
\* is stopping with its own acquisition state attached.
C19_Witness ==
    \E d, e \in Range(instances) :
        /\ d # e
        /\ Done("dev_acquisition_start", d)
        /\ last.ret = SR_OK
        /\ sdi[e].status = SR_ST_STOPPING
        /\ devc[e].acquisition \in acqs
        /\ devc[d].acquisition \in acqs

\* C20: on a STOPPING device a stop and a start return SR_ERR_DEV_CLOSED
\* without an external call and change nothing; no step of start, stop or
\* config_set changes the status of a STOPPING device; and a step of any of
\* the five device operations that takes a device out of STOPPING is a
\* close, which makes it INACTIVE, or an open, which makes it INITIALIZING.
C20_StoppingSticks ==
    /\ [][\A d \in RecIds :
             (/\ sdi[d].status = SR_ST_STOPPING
              /\ \/ Begins("dev_acquisition_stop", d)
                 \/ Begins("dev_acquisition_start", d))
             => /\ last'.ret = SR_ERR_DEV_CLOSED
                /\ last'.calls = <<>>
                /\ UNCHANGED <<instances, recs, sdi, devc, acqs, sources, pc>>]_vars
    /\ [][\A d \in RecIds :
             (/\ sdi[d].status = SR_ST_STOPPING
              /\ last'.op \in {"dev_acquisition_start", "dev_acquisition_stop", "config_set"})
             => sdi'[d].status = SR_ST_STOPPING]_vars
    /\ [][\A d \in RecIds :
             (/\ sdi[d].status = SR_ST_STOPPING
              /\ sdi'[d].status # SR_ST_STOPPING
              /\ last'.op \in DeviceOps)
             => /\ last'.dev = d
                /\ \/ last'.op = "dev_close" /\ sdi'[d].status = SR_ST_INACTIVE
                   \/ last'.op = "dev_open" /\ sdi'[d].status = SR_ST_INITIALIZING]_vars

\* A further stop was refused on a stopping device whose clock selection
\* the client had changed in between.
C20_Witness ==
    \E d \in recs :
        /\ Done("dev_acquisition_stop", d)
        /\ last.ret = SR_ERR_DEV_CLOSED
        /\ sdi[d].status = SR_ST_STOPPING
        /\ devc[d].selected_clock_source = CLOCK_SOURCE_EXT_RISE
        /\ devc[d].acquisition \in acqs

====
